---- MODULE Spec2Model ----
(***************************************************************************)
(* Model of src/src/index.js: the tiered activity mapper.                  *)
(*                                                                         *)
(* processInputFile reads a JSON array of texts, starts one processEntry   *)
(* per text (Promise.all over an async map), and writes the array of       *)
(* verdicts once every one of them has returned.  mapEntry embeds the      *)
(* text, embeds every canonical activity in turn, keeps the best cosine    *)
(* score, and depending on two thresholds returns at once, asks the LLM,   *)
(* or returns the embedding verdict flagged for review.                    *)
(*                                                                         *)
(* Scores and confidences are kept in hundredths (0.9 is 90, -1 is -100).  *)
(* Every await of a provider call is a suspend point: one action per       *)
(* provider response, containing everything the code runs until the next   *)
(* await.  What each provider call of the run answers is fixed in resp     *)
(* when the run starts and is only read when the call returns.             *)
(***************************************************************************)
EXTENDS Integers, Sequences, FiniteSets, TLC

(* ---------------------------- bounds ----------------------------------- *)

\* how many of the canonical activities the model keeps
NumLabels == 3

\* how many texts the input file of a batch run holds
NumInputs == 2

(* ------------------------- program constants --------------------------- *)

AllActivities ==
    << "absence, planned",
       "absence, unplanned",
       "customer facing time, phone inbound",
       "customer facing time, phone outbound",
       "customer facing time, web chat",
       "customer facing time, social media",
       "holiday, holiday",
       "holiday, bank holiday",
       "holiday, emergency",
       "planned event, callback",
       "planned event, coaching",
       "planned event, meeting" >>

CANONICAL_ACTIVITIES == SubSeq(AllActivities, 1, NumLabels)

HIGH_CONFIDENCE_THRESHOLD == 90

REVIEW_THRESHOLD == 70

\* let bestScore = -1
InitialBestScore == -100

\* let bestMatch = null
Null == "<null>"

ActivitySet == { CANONICAL_ACTIVITIES[k] : k \in 1..NumLabels }

(* ------------------------ provider responses --------------------------- *)

\* cosine similarities the embedding provider's vectors can produce:
\* the lower end of the range, below the review threshold, on it, inside the
\* review band, on the high threshold, above it
Scores == { -100, 50, 70, 80, 90, 95 }

\* texts of the input file
Texts == { "on the phones", "sick day" }

\* a match the model names that is not in the list it was given
OffListMatch == "lunch break"

\* confidences the model reports
Confidences == { 50, 80, 90 }

\* res.choices[0].message.content (content), by what JSON.parse makes of it:
\*   "object"  an object; match is its match field, confidence its confidence
\*             field when numeric is TRUE, and absent otherwise
\*   "null"    the JSON text null
\*   "nonjson" a text JSON.parse throws on
\*   "error"   the chat completion call itself rejects
NonJsonTexts == { "It is a meeting.", "Sorry, I cannot help with that." }

LLMObjects ==
    [ kind : {"object"}, match : ActivitySet \cup {OffListMatch},
      numeric : {TRUE}, confidence : Confidences, content : {"{...}"} ] \cup
    [ kind : {"object"}, match : ActivitySet \cup {OffListMatch},
      numeric : {FALSE}, confidence : {50}, content : {"{...}"} ]

LLMResponses ==
    LLMObjects \cup
    { [ kind |-> "nonjson", match |-> Null, numeric |-> FALSE, confidence |-> 50,
        content |-> t ] : t \in NonJsonTexts } \cup
    { [ kind |-> "null", match |-> Null, numeric |-> FALSE, confidence |-> 50,
        content |-> "null" ],
      [ kind |-> "error", match |-> Null, numeric |-> FALSE, confidence |-> 50,
        content |-> "" ] }

\* no embedding call of the resolution fails
NoFailure == NumLabels + 1

\* what the providers answer to one resolution: score[k] is the cosine of the
\* input's and activity k's embeddings, failAt the first embedding call that
\* rejects (0 the input's, k activity k's, NoFailure none), llm the chat reply
Responses ==
    [ score : [1..NumLabels -> Scores], failAt : 0..NoFailure, llm : LLMResponses ]

(* ------------------------------ state ---------------------------------- *)

VARIABLES
    inputFile,      \* the JSON array in INPUT_FILE_PATH
    resp,           \* resp[i]: the providers' answers to resolution i
    batch,          \* where processInputFile is
    jsonData,       \* the parsed input array
    pc,             \* pc[i]: where mapEntry for jsonData[i] is
    idx,            \* idx[i]: position of the loop over CANONICAL_ACTIVITIES
    bestMatch,      \* bestMatch[i]
    bestScore,      \* bestScore[i]
    embedCalls,     \* embedCalls[i]: openai.embeddings.create calls issued
    llmCalls,       \* llmCalls[i]: classifyWithLLM calls made
    answered,       \* answered[i]: provider calls that resolved or rejected
    result,         \* result[i]: the verdict processEntry returned
    error,          \* error[i]: the error the resolution threw
    completed,      \* the resolutions that returned, in order of completion
    mappedData,     \* what Promise.all resolved to
    outputFile,     \* the array written to OUTPUT_FILE_PATH
    writes          \* writeFile calls completed

vars ==
    << inputFile, resp, batch, jsonData, pc, idx, bestMatch, bestScore,
       embedCalls, llmCalls, answered, result, error, completed, mappedData,
       outputFile, writes >>

NoVerdict ==
    [ input |-> "", mappedOutput |-> Null, source |-> "none",
      confidence |-> InitialBestScore, humanReviewRequired |-> TRUE ]

NoError == [ kind |-> "none", raw |-> "" ]

(* ------------------------------ mapEntry ------------------------------- *)

\* if (score > bestScore)
ScoreImproves(score, best) == score > best

\* the loop's turn were bestScore one module-level variable that every call
\* of mapEntry compares against
ScorerStepShared(best, activity, score) ==
    IF \A j \in DOMAIN bestScore : score > bestScore[j]
    THEN [ match |-> activity, score |-> score ]
    ELSE best

\* one turn of the loop over CANONICAL_ACTIVITIES, after the await
ScorerStep(best, activity, score) ==
    IF ScoreImproves(score, best.score)
    THEN [ match |-> activity, score |-> score ]
    ELSE best

TierOneVerdictNoReview(inputEntry, match, score) ==
    [ input |-> inputEntry, mappedOutput |-> match, source |-> "embedding",
      confidence |-> score, humanReviewRequired |-> FALSE ]

\* const mappingResult = { ... }
TierOneVerdict(inputEntry, match, score) ==
    [ input |-> inputEntry, mappedOutput |-> match, source |-> "embedding",
      confidence |-> score, humanReviewRequired |-> TRUE ]

ShortCircuitsStrict(score) == score > HIGH_CONFIDENCE_THRESHOLD

\* if (bestScore >= HIGH_CONFIDENCE_THRESHOLD)
ShortCircuits(score) == score >= HIGH_CONFIDENCE_THRESHOLD

\* mappingResult.humanReviewRequired = false; return mappingResult
ShortCircuitVerdict(m) == [ m EXCEPT !.humanReviewRequired = FALSE ]

EscalatesStrict(score) == score > REVIEW_THRESHOLD

\* if (bestScore >= REVIEW_THRESHOLD)
Escalates(score) == score >= REVIEW_THRESHOLD

LLMConfidenceAbove(llm, x) == llm.numeric /\ llm.confidence > x

\* llmResult.confidence >= x: false when the field is absent (undefined >= x)
LLMConfidenceAtLeast(llm, x) == llm.numeric /\ llm.confidence >= x

ApplyLLMResultAlwaysOverwrite(m, llm) ==
    IF LLMConfidenceAtLeast(llm, HIGH_CONFIDENCE_THRESHOLD)
    THEN [ m EXCEPT !.mappedOutput = llm.match, !.source = "llm",
                    !.confidence = llm.confidence, !.humanReviewRequired = FALSE ]
    ELSE IF llm.numeric
         THEN [ m EXCEPT !.source = "llm", !.humanReviewRequired = TRUE,
                         !.mappedOutput = llm.match, !.confidence = llm.confidence ]
         ELSE [ m EXCEPT !.source = "llm", !.humanReviewRequired = TRUE ]

ApplyLLMResultSourceOnAccept(m, llm) ==
    IF LLMConfidenceAtLeast(llm, HIGH_CONFIDENCE_THRESHOLD)
    THEN [ m EXCEPT !.mappedOutput = llm.match, !.source = "llm",
                    !.confidence = llm.confidence, !.humanReviewRequired = FALSE ]
    ELSE IF LLMConfidenceAtLeast(llm, m.confidence)
         THEN [ m EXCEPT !.source = "llm", !.humanReviewRequired = TRUE,
                         !.mappedOutput = llm.match, !.confidence = llm.confidence ]
         ELSE [ m EXCEPT !.humanReviewRequired = TRUE ]

ApplyLLMResultKeepsReview(m, llm) ==
    IF LLMConfidenceAtLeast(llm, HIGH_CONFIDENCE_THRESHOLD)
    THEN [ m EXCEPT !.mappedOutput = llm.match, !.source = "llm",
                    !.confidence = llm.confidence ]
    ELSE IF LLMConfidenceAtLeast(llm, m.confidence)
         THEN [ m EXCEPT !.source = "llm", !.humanReviewRequired = TRUE,
                         !.mappedOutput = llm.match, !.confidence = llm.confidence ]
         ELSE [ m EXCEPT !.source = "llm", !.humanReviewRequired = TRUE ]

\* if (llmResult.confidence >= HIGH_CONFIDENCE_THRESHOLD) { ... } else { ... }
ApplyLLMResult(m, llm) ==
    IF LLMConfidenceAtLeast(llm, HIGH_CONFIDENCE_THRESHOLD)
    THEN [ m EXCEPT !.mappedOutput = llm.match, !.source = "llm",
                    !.confidence = llm.confidence, !.humanReviewRequired = FALSE ]
    ELSE IF LLMConfidenceAtLeast(llm, m.confidence)
         THEN [ m EXCEPT !.source = "llm", !.humanReviewRequired = TRUE,
                         !.mappedOutput = llm.match, !.confidence = llm.confidence ]
         ELSE [ m EXCEPT !.source = "llm", !.humanReviewRequired = TRUE ]

(* --------------------------- classifyWithLLM --------------------------- *)

\* throw new Error(`Failed to parse LLM response: ${content}`)
ParseFailure(llm) == [ kind |-> "Failed to parse LLM response", raw |-> llm.content ]

\* the rejection of openai.embeddings.create / openai.chat.completions.create
ProviderFailure == [ kind |-> "provider error", raw |-> "" ]

\* llmResult.match read off JSON null (the log line after the call)
NullDereference == [ kind |-> "TypeError", raw |-> "" ]

\* what a catch block that falls back to an empty answer would return
EmptyAnswer ==
    [ kind |-> "object", match |-> Null, numeric |-> FALSE, confidence |-> 50,
      content |-> "{}" ]

ClassifyWithLLMSwallows(llm) ==
    IF llm.kind = "error"
    THEN [ ok |-> FALSE, error |-> ProviderFailure, value |-> llm ]
    ELSE IF llm.kind = "nonjson"
         THEN [ ok |-> TRUE, error |-> NoError, value |-> EmptyAnswer ]
         ELSE [ ok |-> TRUE, error |-> NoError, value |-> llm ]

\* classifyWithLLM: the chat completion call, then JSON.parse of its content
\* in a try whose catch throws the parse error
ClassifyWithLLM(llm) ==
    IF llm.kind = "error"
    THEN [ ok |-> FALSE, error |-> ProviderFailure, value |-> llm ]
    ELSE IF llm.kind = "nonjson"
         THEN [ ok |-> FALSE, error |-> ParseFailure(llm), value |-> llm ]
         ELSE [ ok |-> TRUE, error |-> NoError, value |-> llm ]

(* ----------------------- mapEntry, run on its own ---------------------- *)

\* the loop over CANONICAL_ACTIVITIES from position k on, bestMatch and
\* bestScore being match and score, every embedding call answering
RECURSIVE ScoreFrom(_, _, _, _)
ScoreFrom(k, match, score, scores) ==
    IF k > Len(CANONICAL_ACTIVITIES)
    THEN [ match |-> match, score |-> score ]
    ELSE IF scores[k] > score
         THEN ScoreFrom(k + 1, CANONICAL_ACTIVITIES[k], scores[k], scores)
         ELSE ScoreFrom(k + 1, match, score, scores)

\* what one call of mapEntry(inputEntry) comes to when nothing else runs and
\* the providers answer r: the verdict it returns or the error it throws
MapEntryAlone(inputEntry, r) ==
    IF r.failAt # NoFailure
    THEN [ returns |-> FALSE, verdict |-> NoVerdict, error |-> ProviderFailure ]
    ELSE
      LET best == ScoreFrom(1, Null, InitialBestScore, r.score)
          m == TierOneVerdict(inputEntry, best.match, best.score)
          llm == ClassifyWithLLM(r.llm)
      IN  IF ShortCircuits(best.score)
          THEN [ returns |-> TRUE, verdict |-> ShortCircuitVerdict(m), error |-> NoError ]
          ELSE IF ~Escalates(best.score)
          THEN [ returns |-> TRUE, verdict |-> m, error |-> NoError ]
          ELSE IF ~llm.ok
          THEN [ returns |-> FALSE, verdict |-> NoVerdict, error |-> llm.error ]
          ELSE IF llm.value.kind = "null"
          THEN [ returns |-> FALSE, verdict |-> NoVerdict, error |-> NullDereference ]
          ELSE [ returns |-> TRUE, verdict |-> ApplyLLMResult(m, llm.value),
                 error |-> NoError ]

(* -------------------------- processInputFile --------------------------- *)

PromiseAllValuesByCompletion(values, order) ==
    [ k \in 1..Len(order) |-> values[order[k]] ]

\* what Promise.all resolves to: the values by position in the mapped array
PromiseAllValues(values, order) ==
    [ k \in 1..Len(values) |-> values[k] ]

Resolutions == DOMAIN inputFile

\* mapEntry for input i returns verdict v: processEntry logs and returns it,
\* the map callback's promise fulfils, and Promise.all fulfils when it was the
\* last one, upon which processInputFile calls writeFile
Return(i, v) ==
    /\ pc' = [ pc EXCEPT ![i] = "returned" ]
    /\ result' = [ result EXCEPT ![i] = v ]
    /\ completed' = Append(completed, i)
    /\ IF \A j \in Resolutions \ {i} : pc[j] = "returned"
       THEN /\ mappedData' = PromiseAllValues(result', completed')
            /\ batch' = "writing"
       ELSE UNCHANGED << mappedData, batch >>
    /\ UNCHANGED error

\* the throw were caught around mapEntry and what the scorer had found so far
\* returned in its place
ThrowCaughtAsVerdict(i, e) ==
    Return(i, TierOneVerdict(jsonData[i], bestMatch[i], bestScore[i]))

\* the throw were recorded for input i only (Promise.allSettled): the other
\* resolutions go on, and the write follows the last one to end
ThrowSettles(i, e) ==
    /\ pc' = [ pc EXCEPT ![i] = "threw" ]
    /\ error' = [ error EXCEPT ![i] = e ]
    /\ IF \A j \in Resolutions \ {i} : pc[j] \in { "returned", "threw" }
       THEN /\ mappedData' = PromiseAllValues(result, completed)
            /\ batch' = "writing"
       ELSE UNCHANGED << mappedData, batch >>
    /\ UNCHANGED << result, completed >>

\* mapEntry for input i throws e: nothing catches it in processEntry, in the
\* map callback or in processInputFile, so Promise.all rejects, the top-level
\* await rejects and the process ends with the error, whatever is pending
Throw(i, e) ==
    /\ pc' = [ pc EXCEPT ![i] = "threw" ]
    /\ error' = [ error EXCEPT ![i] = e ]
    /\ batch' = "exited"
    /\ UNCHANGED << result, completed, mappedData >>

\* the code from the end of the loop to the return or to the LLM call
AfterScoring(i, best) ==
    LET m == TierOneVerdict(jsonData[i], best.match, best.score) IN
    IF ShortCircuits(best.score)
    THEN /\ Return(i, ShortCircuitVerdict(m))
         /\ UNCHANGED llmCalls
    ELSE IF Escalates(best.score)
         THEN /\ pc' = [ pc EXCEPT ![i] = "llm" ]
              /\ llmCalls' = [ llmCalls EXCEPT ![i] = @ + 1 ]
              /\ UNCHANGED << result, error, completed, mappedData, batch >>
         ELSE /\ Return(i, m)
              /\ UNCHANGED llmCalls

(* ------------------------------ actions -------------------------------- *)

\* readFile returns; JSON.parse; jsonData.map starts processEntry for every
\* item, each of which runs to its first await (the input text's embedding).
\* The input file is a readable JSON array of at least one text.
ReadInputFile ==
    /\ batch = "reading"
    /\ batch' = "mapping"
    /\ jsonData' = inputFile
    /\ pc' = [ i \in Resolutions |-> "embedInput" ]
    /\ embedCalls' = [ i \in Resolutions |-> 1 ]
    /\ UNCHANGED << inputFile, resp, idx, bestMatch, bestScore, llmCalls, answered,
                    result, error, completed, mappedData, outputFile, writes >>

\* the resumption were the activities' embeddings requested all at once
\* (Promise.all over CANONICAL_ACTIVITIES) instead of one per turn
InputEmbeddingReturnsIssuesAll(i) ==
    /\ batch = "mapping"
    /\ pc[i] = "embedInput"
    /\ answered' = [ answered EXCEPT ![i] = @ + 1 ]
    /\ IF resp[i].failAt = 0
       THEN /\ Throw(i, ProviderFailure)
            /\ UNCHANGED << idx, bestMatch, bestScore, embedCalls >>
       ELSE /\ bestMatch' = [ bestMatch EXCEPT ![i] = Null ]
            /\ bestScore' = [ bestScore EXCEPT ![i] = InitialBestScore ]
            /\ idx' = [ idx EXCEPT ![i] = 1 ]
            /\ pc' = [ pc EXCEPT ![i] = "embedLabel" ]
            /\ embedCalls' = [ embedCalls EXCEPT ![i] = @ + Len(CANONICAL_ACTIVITIES) ]
            /\ UNCHANGED << result, error, completed, mappedData, batch >>
    /\ UNCHANGED << inputFile, resp, jsonData, llmCalls, outputFile, writes >>

\* const inputEmbedding = await getEmbedding(inputEntry) resumes
InputEmbeddingReturns(i) ==
    /\ batch = "mapping"
    /\ pc[i] = "embedInput"
    /\ answered' = [ answered EXCEPT ![i] = @ + 1 ]
    /\ IF resp[i].failAt = 0
       THEN /\ Throw(i, ProviderFailure)
            /\ UNCHANGED << idx, bestMatch, bestScore, embedCalls >>
       ELSE /\ bestMatch' = [ bestMatch EXCEPT ![i] = Null ]
            /\ bestScore' = [ bestScore EXCEPT ![i] = InitialBestScore ]
            /\ idx' = [ idx EXCEPT ![i] = 1 ]
            /\ pc' = [ pc EXCEPT ![i] = "embedLabel" ]
            /\ embedCalls' = [ embedCalls EXCEPT ![i] = @ + 1 ]
            /\ UNCHANGED << result, error, completed, mappedData, batch >>
    /\ UNCHANGED << inputFile, resp, jsonData, llmCalls, outputFile, writes >>

\* const activityEmbedding = await getEmbedding(activity) resumes
LabelEmbeddingReturns(i) ==
    /\ batch = "mapping"
    /\ pc[i] = "embedLabel"
    /\ answered' = [ answered EXCEPT ![i] = @ + 1 ]
    /\ IF resp[i].failAt = idx[i]
       THEN /\ Throw(i, ProviderFailure)
            /\ UNCHANGED << idx, bestMatch, bestScore, embedCalls, llmCalls >>
       ELSE LET best == ScorerStep([ match |-> bestMatch[i], score |-> bestScore[i] ],
                                   CANONICAL_ACTIVITIES[idx[i]],
                                   resp[i].score[idx[i]])
            IN  /\ bestMatch' = [ bestMatch EXCEPT ![i] = best.match ]
                /\ bestScore' = [ bestScore EXCEPT ![i] = best.score ]
                /\ IF idx[i] < Len(CANONICAL_ACTIVITIES)
                   THEN /\ idx' = [ idx EXCEPT ![i] = @ + 1 ]
                        /\ embedCalls' = [ embedCalls EXCEPT ![i] = @ + 1 ]
                        /\ UNCHANGED << pc, llmCalls, result, error, completed,
                                        mappedData, batch >>
                   ELSE /\ AfterScoring(i, best)
                        /\ UNCHANGED << idx, embedCalls >>
    /\ UNCHANGED << inputFile, resp, jsonData, outputFile, writes >>

\* the resumption were classifyWithLLM called once more after an answer that
\* does not parse
LLMReturnsRetries(i) ==
    /\ batch = "mapping"
    /\ pc[i] = "llm"
    /\ answered' = [ answered EXCEPT ![i] = @ + 1 ]
    /\ LET llm == ClassifyWithLLM(resp[i].llm)
           m == TierOneVerdict(jsonData[i], bestMatch[i], bestScore[i])
       IN  IF resp[i].llm.kind = "nonjson" /\ llmCalls[i] < 2
           THEN /\ llmCalls' = [ llmCalls EXCEPT ![i] = @ + 1 ]
                /\ UNCHANGED << pc, result, error, completed, mappedData, batch >>
           ELSE /\ UNCHANGED llmCalls
                /\ IF ~llm.ok THEN Throw(i, llm.error)
                   ELSE IF llm.value.kind = "null" THEN Throw(i, NullDereference)
                   ELSE Return(i, ApplyLLMResult(m, llm.value))
    /\ UNCHANGED << inputFile, resp, jsonData, idx, bestMatch, bestScore,
                    embedCalls, outputFile, writes >>

\* const llmResult = await classifyWithLLM(...) resumes; mappingResult is the
\* local built before the await from bestMatch and bestScore, which no other
\* code can reach
LLMReturns(i) ==
    /\ batch = "mapping"
    /\ pc[i] = "llm"
    /\ answered' = [ answered EXCEPT ![i] = @ + 1 ]
    /\ LET llm == ClassifyWithLLM(resp[i].llm)
           m == TierOneVerdict(jsonData[i], bestMatch[i], bestScore[i])
       IN  IF ~llm.ok THEN Throw(i, llm.error)
           ELSE IF llm.value.kind = "null" THEN Throw(i, NullDereference)
           ELSE Return(i, ApplyLLMResult(m, llm.value))
    /\ UNCHANGED << inputFile, resp, jsonData, idx, bestMatch, bestScore,
                    embedCalls, llmCalls, outputFile, writes >>

\* await writeFile(OUTPUT_FILE_PATH, JSON.stringify(mappedData)) resumes
WriteFileReturns ==
    /\ batch = "writing"
    /\ outputFile' = mappedData
    /\ writes' = writes + 1
    /\ batch' = "done"
    /\ UNCHANGED << inputFile, resp, jsonData, pc, idx, bestMatch, bestScore,
                    embedCalls, llmCalls, answered, result, error, completed,
                    mappedData >>

Next ==
    \/ ReadInputFile
    \/ \E i \in Resolutions : InputEmbeddingReturns(i)
    \/ \E i \in Resolutions : LabelEmbeddingReturns(i)
    \/ \E i \in Resolutions : LLMReturns(i)
    \/ WriteFileReturns

\* the state of the process when processInputFile has been called, the input
\* file being one of files and the providers' answers drawn from R
InitWith(files, R) ==
    /\ inputFile \in files
    /\ resp \in [ DOMAIN inputFile -> R ]
    /\ batch = "reading"
    /\ jsonData = << >>
    /\ pc = [ i \in DOMAIN inputFile |-> "idle" ]
    /\ idx = [ i \in DOMAIN inputFile |-> 0 ]
    /\ bestMatch = [ i \in DOMAIN inputFile |-> Null ]
    /\ bestScore = [ i \in DOMAIN inputFile |-> InitialBestScore ]
    /\ embedCalls = [ i \in DOMAIN inputFile |-> 0 ]
    /\ llmCalls = [ i \in DOMAIN inputFile |-> 0 ]
    /\ answered = [ i \in DOMAIN inputFile |-> 0 ]
    /\ result = [ i \in DOMAIN inputFile |-> NoVerdict ]
    /\ error = [ i \in DOMAIN inputFile |-> NoError ]
    /\ completed = << >>
    /\ mappedData = << >>
    /\ outputFile = << >>
    /\ writes = 0

\* a run over an input file of one text, the providers answering anything
Init == InitWith({ << "on the phones" >> }, Responses)

Spec == Init /\ [][Next]_vars

\* input files of a batch run: the two texts in turn, or one text repeated
BatchFiles ==
    { [ i \in 1..NumInputs |-> IF i % 2 = 1 THEN "on the phones" ELSE "sick day" ],
      [ i \in 1..NumInputs |-> "sick day" ] }

\* the answers of a batch run: the first activity scores below the review
\* threshold, in the review band or above the high threshold and the others
\* below; the second embedding call of a resolution may fail; the model
\* answers a confident object or text that is not JSON
BatchResponses ==
    { [ score |-> [ k \in 1..NumLabels |-> IF k = 1 THEN s ELSE 50 ],
        failAt |-> f, llm |-> l ] :
        s \in { 50, 80, 95 }, f \in { 1, NoFailure },
        l \in { r \in LLMResponses :
                  \/ r.kind = "nonjson" /\ r.content = "It is a meeting."
                  \/ /\ r.kind = "object" /\ r.numeric /\ r.confidence = 90
                     /\ r.match = CANONICAL_ACTIVITIES[2] } }

InitBatch == InitWith(BatchFiles, BatchResponses)

SpecBatch == InitBatch /\ [][Next]_vars

\* the answers of a run that resolves one text twice: the first two
\* activities score the lower end of the range, in the review band or on the
\* high threshold, the others the lower end; no embedding call fails; the
\* model answers anything
TwiceResponses ==
    { [ score |-> [ k \in 1..NumLabels |-> IF k = 1 THEN s1 ELSE IF k = 2 THEN s2 ELSE -100 ],
        failAt |-> NoFailure, llm |-> l ] :
        s1 \in { -100, 80, 90 }, s2 \in { -100, 80, 90 }, l \in LLMResponses }

\* an input file that holds the same text twice, the providers answering the
\* same request the same way
InitTwice ==
    /\ InitWith({ << t, t >> : t \in Texts }, TwiceResponses)
    /\ resp[1] = resp[2]

SpecTwice == InitTwice /\ [][Next]_vars

\* the one-input run in which every provider call is answered and every
\* answer's continuation runs
SpecFair == Init /\ [][Next]_vars /\ WF_vars(Next)

(* ------------------------------ claims --------------------------------- *)

\* the loop over CANONICAL_ACTIVITIES of resolution i has run to its end
Scored(i) == resp[i].failAt = NoFailure /\ pc[i] \in { "llm", "returned", "threw" }

Ended(i) == pc[i] \in { "returned", "threw" }

InReviewBand(score) == REVIEW_THRESHOLD <= score /\ score < HIGH_CONFIDENCE_THRESHOLD

\* C1: a resolution whose best embedding score is at least
\* HIGH_CONFIDENCE_THRESHOLD has returned, when its scoring is over, the verdict
\* (best label, "embedding", best score, no human review) and has made no
\* classifyWithLLM call.
C1_HighConfidenceShortCircuit ==
    \A i \in Resolutions :
        Scored(i) /\ bestScore[i] >= HIGH_CONFIDENCE_THRESHOLD =>
            /\ pc[i] = "returned"
            /\ result[i].source = "embedding"
            /\ result[i].mappedOutput = bestMatch[i]
            /\ result[i].confidence = bestScore[i]
            /\ result[i].humanReviewRequired = FALSE
            /\ llmCalls[i] = 0

C1_Witness ==
    \E i \in Resolutions :
        /\ pc[i] = "returned"
        /\ bestScore[i] = HIGH_CONFIDENCE_THRESHOLD
        /\ result[i].mappedOutput = CANONICAL_ACTIVITIES[2]

\* C2: a resolution whose best embedding score lies in
\* [REVIEW_THRESHOLD, HIGH_CONFIDENCE_THRESHOLD) has made exactly one
\* classifyWithLLM call from the end of its scoring on, whichever way it ends.
C2_ReviewBandEscalatesOnce ==
    \A i \in Resolutions :
        Scored(i) /\ InReviewBand(bestScore[i]) => llmCalls[i] = 1

C2_Witness ==
    \E i \in Resolutions :
        /\ Ended(i)
        /\ bestScore[i] = REVIEW_THRESHOLD
        /\ llmCalls[i] = 1

\* C3: a resolution whose best embedding score is below REVIEW_THRESHOLD makes
\* no classifyWithLLM call and returns the Tier-1 verdict: the input, the best
\* label, "embedding", the best score, human review required.
C3_LowBandTierOneVerdict ==
    \A i \in Resolutions :
        Scored(i) /\ bestScore[i] < REVIEW_THRESHOLD =>
            /\ pc[i] = "returned"
            /\ llmCalls[i] = 0
            /\ result[i] = [ input |-> jsonData[i], mappedOutput |-> bestMatch[i],
                             source |-> "embedding", confidence |-> bestScore[i],
                             humanReviewRequired |-> TRUE ]

C3_Witness ==
    \E i \in Resolutions :
        /\ pc[i] = "returned"
        /\ bestScore[i] = 50
        /\ result[i].mappedOutput = CANONICAL_ACTIVITIES[1]
        /\ result[i].humanReviewRequired

\* C4: in every verdict mapEntry returns, humanReviewRequired is true exactly
\* when the verdict's confidence is below HIGH_CONFIDENCE_THRESHOLD.
C4_ReviewIffBelowHigh ==
    \A i \in Resolutions :
        pc[i] = "returned" =>
            ( result[i].humanReviewRequired
                <=> result[i].confidence < HIGH_CONFIDENCE_THRESHOLD )

C4_Witness ==
    \E i \in Resolutions :
        /\ pc[i] = "returned"
        /\ result[i].source = "llm"
        /\ result[i].confidence = HIGH_CONFIDENCE_THRESHOLD
        /\ ~result[i].humanReviewRequired

\* C5 as stated: in every returned verdict the confidence is the scorer's best
\* score when source is "embedding" and the confidence the classifier reported
\* when source is "llm".
C5_ConfidenceOfSource ==
    \A i \in Resolutions :
        pc[i] = "returned" =>
            /\ result[i].source = "embedding" => result[i].confidence = bestScore[i]
            /\ result[i].source = "llm" =>
                   /\ resp[i].llm.numeric
                   /\ result[i].confidence = resp[i].llm.confidence

\* C5 amended: in every returned verdict the confidence is the scorer's best
\* score when source is "embedding"; when source is "llm" it is the
\* classifier's confidence if that is a number no smaller than the scorer's
\* best score, and the scorer's best score otherwise.
C5_ConfidenceOfSourceAmended ==
    \A i \in Resolutions :
        pc[i] = "returned" =>
            /\ result[i].source = "embedding" => result[i].confidence = bestScore[i]
            /\ result[i].source = "llm" =>
                   result[i].confidence =
                       IF resp[i].llm.numeric /\ resp[i].llm.confidence >= bestScore[i]
                       THEN resp[i].llm.confidence
                       ELSE bestScore[i]

C5_Witness ==
    \E i \in Resolutions :
        /\ pc[i] = "returned"
        /\ result[i].source = "llm"
        /\ resp[i].llm.numeric
        /\ resp[i].llm.confidence < bestScore[i]
        /\ result[i].confidence = bestScore[i]

\* C6: in every verdict returned after the classifier's answer parsed as a
\* { match, confidence } object, mappedOutput is null or one of
\* CANONICAL_ACTIVITIES.
C6_MappedOutputCanonical ==
    \A i \in Resolutions :
        pc[i] = "returned" /\ (llmCalls[i] = 1 => resp[i].llm.kind = "object") =>
            result[i].mappedOutput \in ActivitySet \cup { Null }

\* the largest of the scores of one resolution
MaxScore(score) ==
    CHOOSE x \in { score[k] : k \in 1..NumLabels } :
        \A k \in 1..NumLabels : score[k] <= x

\* the first position that holds it
FirstBest(score) ==
    CHOOSE k \in 1..NumLabels :
        /\ score[k] = MaxScore(score)
        /\ \A j \in 1..(k - 1) : score[j] < MaxScore(score)

\* C7: when the scorer's loop has ended, bestScore is the largest score over the
\* canonical list and bestMatch is the earliest label that has it.
C7_ScorerReturnsEarliestMaximum ==
    \A i \in Resolutions :
        Scored(i) =>
            /\ bestScore[i] = MaxScore(resp[i].score)
            /\ bestMatch[i] = CANONICAL_ACTIVITIES[FirstBest(resp[i].score)]

\* C8: a resolution whose score is in the review band and whose model answer
\* JSON.parse throws on ends with the parse error carrying the answer's text;
\* it returns no verdict, and nothing is written for it.
C8_MalformedAnswerThrows ==
    \A i \in Resolutions :
        /\ Scored(i) /\ InReviewBand(bestScore[i])
        /\ resp[i].llm.kind = "nonjson"
        /\ pc[i] # "llm"
        => /\ pc[i] = "threw"
           /\ error[i] = [ kind |-> "Failed to parse LLM response",
                           raw |-> resp[i].llm.content ]
           /\ result[i] = NoVerdict
           /\ outputFile = << >>

C8_Witness ==
    \E i \in Resolutions :
        /\ pc[i] = "threw"
        /\ InReviewBand(bestScore[i])
        /\ error[i].raw = "Sorry, I cannot help with that."

\* C9: when a batch run has written its output, the output holds one verdict
\* per input, and the verdict at position i is the one the resolution of
\* input i returned, for input i, in whatever order the resolutions completed.
C9_OutputInInputOrder ==
    batch = "done" =>
        /\ Len(outputFile) = Len(jsonData)
        /\ \A i \in Resolutions :
              /\ pc[i] = "returned"
              /\ outputFile[i] = result[i]
              /\ outputFile[i].input = jsonData[i]

C9_Witness ==
    /\ batch = "done"
    /\ completed[1] = 2
    /\ result[1] # result[2]

\* C10: when the process has ended after a resolution failed, every other
\* resolution has returned its verdict and the output has been written with
\* those verdicts.
C10_FailureLeavesSiblingsAlone ==
    batch \in { "done", "exited" } /\ (\E i \in Resolutions : pc[i] = "threw") =>
        /\ \A j \in Resolutions : pc[j] # "threw" => pc[j] = "returned"
        /\ writes = 1
        /\ \A j \in Resolutions :
              pc[j] = "returned" => \E k \in DOMAIN outputFile : outputFile[k] = result[j]

\* C11: two resolutions of the same text whose provider calls are answered the
\* same way return the same verdict (mappedOutput, source, confidence and
\* humanReviewRequired), however their steps interleave.
C11_SameAnswersSameVerdict ==
    \A i, j \in Resolutions :
        /\ pc[i] = "returned" /\ pc[j] = "returned"
        /\ jsonData[i] = jsonData[j] /\ resp[i] = resp[j]
        => result[i] = result[j]

C11_Witness ==
    /\ pc[1] = "returned" /\ pc[2] = "returned"
    /\ resp[1] = resp[2]
    /\ completed = << 2, 1 >>
    /\ result[1].source = "llm"
    /\ result[1].mappedOutput = OffListMatch

\* the model answered resolution i with an object whose confidence is a number
AnsweredWithConfidence(i) ==
    /\ Scored(i) /\ InReviewBand(bestScore[i]) /\ pc[i] # "llm"
    /\ resp[i].llm.kind = "object" /\ resp[i].llm.numeric

\* C12: a resolution whose score is in the review band and whose classifier
\* reports a confidence of at least HIGH_CONFIDENCE_THRESHOLD returns the
\* classifier's match, source "llm", the classifier's confidence and no human
\* review.
C12_EscalationAccepted ==
    \A i \in Resolutions :
        AnsweredWithConfidence(i)
        /\ resp[i].llm.confidence >= HIGH_CONFIDENCE_THRESHOLD
        => /\ pc[i] = "returned"
           /\ result[i] = [ input |-> jsonData[i], mappedOutput |-> resp[i].llm.match,
                            source |-> "llm", confidence |-> resp[i].llm.confidence,
                            humanReviewRequired |-> FALSE ]

C12_Witness ==
    \E i \in Resolutions :
        /\ AnsweredWithConfidence(i)
        /\ resp[i].llm.confidence >= HIGH_CONFIDENCE_THRESHOLD
        /\ bestMatch[i] = CANONICAL_ACTIVITIES[1]
        /\ result[i].mappedOutput = CANONICAL_ACTIVITIES[2]

\* C13: a resolution whose score is in the review band and whose classifier
\* reports a confidence below HIGH_CONFIDENCE_THRESHOLD returns source "llm"
\* and human review required, with the classifier's match and confidence if
\* that confidence is at least the embedding score and with the embedding
\* tier's label and score otherwise.
C13_EscalationNotAccepted ==
    \A i \in Resolutions :
        AnsweredWithConfidence(i)
        /\ resp[i].llm.confidence < HIGH_CONFIDENCE_THRESHOLD
        => /\ pc[i] = "returned"
           /\ result[i].source = "llm"
           /\ result[i].humanReviewRequired
           /\ result[i].input = jsonData[i]
           /\ IF resp[i].llm.confidence >= bestScore[i]
              THEN /\ result[i].mappedOutput = resp[i].llm.match
                   /\ result[i].confidence = resp[i].llm.confidence
              ELSE /\ result[i].mappedOutput = bestMatch[i]
                   /\ result[i].confidence = bestScore[i]

C13_Witness ==
    \E i \in Resolutions :
        /\ AnsweredWithConfidence(i)
        /\ resp[i].llm.confidence = bestScore[i]
        /\ bestMatch[i] = CANONICAL_ACTIVITIES[1]
        /\ result[i].mappedOutput = CANONICAL_ACTIVITIES[3]
        /\ result[i].humanReviewRequired

\* how far mapEntry is: scoring, escalated, finalized
Stage(p) ==
    IF p \in { "idle", "embedInput", "embedLabel" } THEN 1
    ELSE IF p = "llm" THEN 2
    ELSE 3

\* a step of the run takes no resolution back: its stage does not decrease,
\* its loop position does not decrease, and once it has ended its verdict or
\* error stay as they are
NoStepBack ==
    \A i \in Resolutions :
        /\ Stage(pc'[i]) >= Stage(pc[i])
        /\ idx'[i] >= idx[i]
        /\ pc[i] = "embedLabel" /\ pc'[i] = "embedLabel" /\ answered'[i] # answered[i]
               => idx'[i] = idx[i] + 1
        /\ Ended(i) => pc'[i] = pc[i] /\ result'[i] = result[i] /\ error'[i] = error[i]
                        /\ llmCalls'[i] = llmCalls[i] /\ embedCalls'[i] = embedCalls[i]

\* C14: when every provider call is answered, a resolution ends with a verdict
\* or an error; it makes at most one classifyWithLLM call, and its stages only
\* go scoring -> finalized or scoring -> escalated -> finalized, never back.
C14_EndsAfterAtMostOneEscalation ==
    /\ [](\A i \in Resolutions : llmCalls[i] <= 1)
    /\ [][NoStepBack]_vars
    /\ <>(\A i \in Resolutions : Ended(i))

C14_Witness ==
    \E i \in Resolutions :
        /\ pc[i] = "returned"
        /\ llmCalls[i] = 1
        /\ answered[i] = NumLabels + 2

\* provider calls of resolution i that were issued and have not settled
Outstanding(i) == embedCalls[i] + llmCalls[i] - answered[i]

\* C15: a resolution's provider calls form one chain: the input's embedding,
\* then the activities' embeddings one at a time in list order, then at most
\* one model call; never more than one call is outstanding, and the model call
\* is issued only after all NumLabels + 1 embedding calls have returned.
C15_SequentialProviderCalls ==
    \A i \in Resolutions :
        /\ Outstanding(i) \in { 0, 1 }
        /\ Outstanding(i) = 1 <=> pc[i] \in { "embedInput", "embedLabel", "llm" }
        /\ pc[i] = "embedInput" => embedCalls[i] = 1 /\ answered[i] = 0
        /\ pc[i] = "embedLabel" =>
               /\ idx[i] \in 1..NumLabels
               /\ embedCalls[i] = idx[i] + 1
               /\ answered[i] = idx[i]
        /\ embedCalls[i] <= NumLabels + 1
        /\ llmCalls[i] <= 1
        /\ llmCalls[i] = 1 =>
               /\ embedCalls[i] = NumLabels + 1
               /\ answered[i] >= NumLabels + 1
               /\ resp[i].failAt = NoFailure

C15_Witness ==
    \E i \in Resolutions :
        /\ pc[i] = "llm"
        /\ embedCalls[i] = NumLabels + 1
        /\ answered[i] = NumLabels + 1
        /\ llmCalls[i] = 1

\* C16: in a batch run, under every interleaving of the resolutions' provider
\* answers, a resolution that ends returns the verdict (or throws the error)
\* that mapEntry comes to for that input and those answers when run on its own.
C16_ConcurrentAsAlone ==
    \A i \in Resolutions :
        /\ pc[i] = "returned" =>
               /\ MapEntryAlone(jsonData[i], resp[i]).returns
               /\ result[i] = MapEntryAlone(jsonData[i], resp[i]).verdict
        /\ pc[i] = "threw" =>
               /\ ~MapEntryAlone(jsonData[i], resp[i]).returns
               /\ error[i] = MapEntryAlone(jsonData[i], resp[i]).error

C16_Witness ==
    /\ pc[1] = "returned" /\ pc[2] = "returned"
    /\ completed[1] = 2
    /\ result[1].source = "embedding" /\ ~result[1].humanReviewRequired
    /\ result[2].source = "llm"
    /\ bestScore[1] > bestScore[2]

\* C17: a resolution one of whose embedding calls rejects, for the input text
\* or for an activity, ends with the provider's error: it returns no verdict,
\* issues no embedding call after the one that failed and never calls
\* classifyWithLLM.
C17_EmbeddingFailurePropagates ==
    \A i \in Resolutions :
        resp[i].failAt # NoFailure /\ answered[i] > resp[i].failAt =>
            /\ pc[i] = "threw"
            /\ error[i] = ProviderFailure
            /\ result[i] = NoVerdict
            /\ embedCalls[i] = resp[i].failAt + 1
            /\ answered[i] = resp[i].failAt + 1
            /\ llmCalls[i] = 0
            /\ \A k \in DOMAIN outputFile : outputFile[k].input # jsonData[i]

C17_Witness ==
    \E i \in Resolutions :
        /\ pc[i] = "threw"
        /\ resp[i].failAt = 2
        /\ bestScore[i] = 80
        /\ embedCalls[i] = 3

\* C18: the output file is written at most once, and only when every
\* resolution of the batch has returned its verdict; once a resolution has
\* thrown, no write is issued and nothing is ever written.
C18_WriteOnceAfterAllReturned ==
    /\ writes <= 1
    /\ batch \in { "writing", "done" } =>
           /\ \A i \in Resolutions : pc[i] = "returned"
           /\ mappedData = result
    /\ writes = 1 <=> batch = "done"
    /\ batch # "done" => outputFile = << >>
    /\ (\E i \in Resolutions : pc[i] = "threw") =>
           /\ batch = "exited"
           /\ writes = 0
           /\ outputFile = << >>

C18_Witness ==
    /\ batch = "done"
    /\ writes = 1
    /\ Len(outputFile) = NumInputs
    /\ \E i \in Resolutions : llmCalls[i] = 1

\* C19: in every verdict mapEntry returns, source is "llm" exactly when
\* classifyWithLLM was called and returned a parsed answer in that resolution,
\* and "embedding" exactly when no classifyWithLLM call was made.
C19_SourceTellsEscalation ==
    \A i \in Resolutions :
        pc[i] = "returned" =>
            /\ result[i].source \in { "embedding", "llm" }
            /\ result[i].source = "llm" <=>
                   llmCalls[i] = 1 /\ ClassifyWithLLM(resp[i].llm).ok
            /\ result[i].source = "embedding" <=> llmCalls[i] = 0

C19_Witness ==
    \E i \in Resolutions :
        /\ pc[i] = "returned"
        /\ llmCalls[i] = 1
        /\ ~resp[i].llm.numeric
        /\ result[i].source = "llm"
        /\ result[i].mappedOutput = bestMatch[i]

\* the larger of two numbers
Larger(a, b) == IF a >= b THEN a ELSE b

\* C20: in every verdict mapEntry returns the confidence is at least the
\* scorer's best score, and in every verdict returned after an answer with a
\* numeric confidence it is the larger of the best score and that confidence.
C20_EscalationNeverLowersConfidence ==
    \A i \in Resolutions :
        pc[i] = "returned" =>
            /\ result[i].confidence >= bestScore[i]
            /\ llmCalls[i] = 1 /\ resp[i].llm.numeric =>
                   result[i].confidence = Larger(bestScore[i], resp[i].llm.confidence)

C20_Witness ==
    \E i \in Resolutions :
        /\ pc[i] = "returned"
        /\ llmCalls[i] = 1
        /\ bestScore[i] = REVIEW_THRESHOLD
        /\ resp[i].llm.confidence = 80
        /\ result[i].confidence = 80
        /\ result[i].humanReviewRequired

====
